---- MODULE Spec2Model ----
(***************************************************************************)
(* A model of extract_msg_script.py: Message.extract (a regular-expression *)
(* start marker, a literal end marker), Message.data (the lazily cached    *)
(* record of one message) and Dispatcher.execute (the batch that writes    *)
(* one csv row per input file).                                            *)
(*                                                                         *)
(* Texts are sequences of one-character strings.  Positions are Python's:  *)
(* 0-based, so the character at position p of t is t[p + 1].               *)
(***************************************************************************)
EXTENDS Integers, Sequences, FiniteSets

\* ------------------------------------------------------------------ bounds
\* Longest text, start pattern (in tokens) and end marker handed to extract.
MaxTextLen == 3
MaxPatLen == 2
MaxEndLen == 1
\* Most Message objects built, and most reads of .data, in SpecData.
MaxMsgs == 2
MaxReads == 3
\* Longest list of paths handed to the Dispatcher.
MaxFiles == 3

\* ------------------------------------------------- characters and patterns
\* What a call gives back: the value it returns, or the fact that it raised.
Returned(v) == [raised |-> FALSE, value |-> v]
Raised == [raised |-> TRUE, value |-> <<>>]

\* The characters extract is exercised on: a word character and the two
\* whitespace characters that str.strip and '.' tell apart.
Sigma == {"a", " ", "\n"}

\* \w of Python's re for str patterns (ASCII part): letters, digits, '_'.
WordChars ==
    {"a","b","c","d","e","f","g","h","i","j","k","l","m","n","o","p","q","r",
     "s","t","u","v","w","x","y","z","A","B","C","D","E","F","G","H","I","J",
     "K","L","M","N","O","P","Q","R","S","T","U","V","W","X","Y","Z","0","1",
     "2","3","4","5","6","7","8","9","_"}

\* str.isspace for the characters that occur here.
IsSpace(c) == c \in {" ", "\n", "\t", "\r"}

\* The parsed form of a start pattern: a sequence of tokens, each a literal
\* character or one of these three: '.', '.*' and '\b'.
DOT == "DOT"
DOTSTAR == "DOTSTAR"
WORDB == "WORDB"
Tokens == Sigma \cup {DOT, DOTSTAR, WORDB}

\* All sequences over S of length at most n.
SeqsUpTo(S, n) == UNION {[1..k -> S] : k \in 0..n}

\* ------------------------------------------------------- Python's str ops
\* text[lo:hi] with Python's handling of negative and out-of-range indices.
PyIndex(i, n) == IF i < 0 THEN (IF i + n < 0 THEN 0 ELSE i + n)
                 ELSE IF i > n THEN n ELSE i

PySlice(t, lo, hi) ==
    LET a == PyIndex(lo, Len(t))
        b == PyIndex(hi, Len(t))
    IN  IF a >= b THEN <<>> ELSE SubSeq(t, a + 1, b)

\* Whether sub occurs in t at position p.
OccursAt(t, sub, p) ==
    /\ p + Len(sub) <= Len(t)
    /\ \A k \in 1..Len(sub) : t[p + k] = sub[k]

\* str.find: the lowest position where sub occurs, or -1.
Find(t, sub) ==
    LET hits == {p \in 0..Len(t) : OccursAt(t, sub, p)}
    IN  IF hits = {} THEN -1
        ELSE CHOOSE p \in hits : \A q \in hits : p <= q

\* str.strip: leading and trailing whitespace removed.
Strip(t) ==
    LET keep == {k \in 1..Len(t) : ~IsSpace(t[k])}
    IN  IF keep = {} THEN <<>>
        ELSE LET lo == CHOOSE k \in keep : \A j \in keep : k <= j
                 hi == CHOOSE k \in keep : \A j \in keep : j <= k
             IN  SubSeq(t, lo, hi)

\* ------------------------------------------------------------ re.search
\* \b: a word character on exactly one side of position p.
AtWordBoundary(t, p) ==
    LET before == p > 0 /\ t[p] \in WordChars
        after == p < Len(t) /\ t[p + 1] \in WordChars
    IN  before # after

\* The end position of the match of pat[i..] at position p of t that the
\* backtracking matcher finds first ('.*' is greedy), or -1 when none.
RECURSIVE MatchEnd(_, _, _, _)
RECURSIVE StarEnd(_, _, _, _, _)
MatchEnd(pat, i, t, p) ==
    IF i > Len(pat) THEN p
    ELSE IF pat[i] = WORDB
         THEN IF AtWordBoundary(t, p) THEN MatchEnd(pat, i + 1, t, p) ELSE -1
    ELSE IF pat[i] = DOTSTAR
         THEN LET run == {k \in 0..(Len(t) - p) :
                             \A j \in 1..k : t[p + j] # "\n"}
                  most == CHOOSE k \in run : \A j \in run : j <= k
              IN  StarEnd(pat, i, t, p, most)
    ELSE IF p >= Len(t) THEN -1
    ELSE IF pat[i] = DOT
         THEN IF t[p + 1] # "\n" THEN MatchEnd(pat, i + 1, t, p + 1) ELSE -1
    ELSE IF t[p + 1] = pat[i] THEN MatchEnd(pat, i + 1, t, p + 1) ELSE -1

\* '.*' at pat[i] taking k characters, then k - 1, ... down to none.
StarEnd(pat, i, t, p, k) ==
    LET e == MatchEnd(pat, i + 1, t, p + k)
    IN  IF e # -1 THEN e
        ELSE IF k = 0 THEN -1
        ELSE StarEnd(pat, i, t, p, k - 1)

\* The positions of t at which pat matches.
MatchStarts(pat, t) == {p \in 0..Len(t) : MatchEnd(pat, 1, t, p) # -1}

\* The match of pat in t that starts leftmost among the positions starts;
\* found is FALSE when there is none.
Leftmost(pat, t, starts) ==
    IF starts = {} THEN [found |-> FALSE, start |-> -1, end |-> -1]
    ELSE LET s == CHOOSE p \in starts : \A q \in starts : p <= q
         IN  [found |-> TRUE, start |-> s, end |-> MatchEnd(pat, 1, t, s)]

\* re.search(pat, t): the leftmost match as its span; found is FALSE when
\* re.search returns None.
Search(pat, t) == Leftmost(pat, t, MatchStarts(pat, t))

\* match.group(): the matched text.
Group(t, m) == SubSeq(t, m.start + 1, m.end)

\* --------------------------------------------------------- Message.extract
\* The last three lines of Message.extract, given start_i.
ExtractAt(start_i, end, text) ==
    LET remaining_str == PySlice(text, start_i, Len(text))
        end_i == Find(remaining_str, end) + start_i
    IN  Returned(Strip(PySlice(text, start_i, end_i)))

\* A faulty variant of ExtractFrom: no match gives the empty string.
ExtractFromSilent(m, end, text) ==
    IF ~m.found THEN Returned(<<>>)
    ELSE LET start_full == Group(text, m)
         IN  ExtractAt(Find(text, start_full) + Len(start_full), end, text)

\* Message.extract from the result m of re.search on: .group() raises
\* AttributeError on None; otherwise start_i is where the matched text is
\* first found in text, plus its length.
ExtractFrom(m, end, text) ==
    IF ~m.found THEN Raised
    ELSE LET start_full == Group(text, m)
         IN  ExtractAt(Find(text, start_full) + Len(start_full), end, text)

\* Message.extract(start, end, text): the stripped text returned, or Raised.
Extract(start, end, text) == ExtractFrom(Search(start, text), end, text)

\* ----------------------------------------------------------- the messages
\* Field names and file texts, as the characters they are written with.
K_date == <<"d","a","t","e">>
K_comment == <<"c","o","m","m","e","n","t">>
K_case_number == <<"c","a","s","e","_","n","u","m","b","e","r">>
K_account == <<"a","c","c","o","u","n","t">>
K_contact == <<"c","o","n","t","a","c","t">>

\* The start patterns of SEARCH_STRINGS, parsed.
P_comment ==
    <<"C","o","m","m","e","n","t"," ","f","r","o","m"," ",DOTSTAR,":"," ">>
P_case_number ==
    <<"C","a","s","e"," ","N","u","m","b","e","r",":"," ">>
P_account ==
    <<"A","c","c","o","u","n","t",":"," ">>
P_contact ==
    <<"C","o","n","t","a","c","t",":"," ">>

\* A SEARCH_STRINGS value: None, or the pair (start pattern, end marker).
NoPair == [none |-> TRUE, first |-> <<>>, last |-> <<>>]
Pair(first, last) == [none |-> FALSE, first |-> first, last |-> last]

\* Message.SEARCH_STRINGS, as its items in insertion order.
SEARCH_STRINGS ==
    << <<K_date, NoPair>>,
       <<K_comment, Pair(P_comment, <<"\n">>)>>,
       <<K_case_number, Pair(P_case_number, <<"(">>)>>,
       <<K_account, Pair(P_account, <<"\n">>)>>,
       <<K_contact, Pair(P_contact, <<"\n">>)>> >>

\* dict.keys(): the keys of a dict in insertion order.
Keys(d) == [k \in 1..Len(d) |-> d[k][1]]

\* Whether dict d has key.
HasKey(d, key) == \E k \in 1..Len(d) : d[k][1] = key

\* dict.get(key, default).
Get(d, key, default) ==
    IF HasKey(d, key)
    THEN d[CHOOSE k \in 1..Len(d) : d[k][1] = key][2]
    ELSE default

\* d[key] = value: a present key keeps its place, a new key goes last.
SetItem(d, key, value) ==
    IF HasKey(d, key)
    THEN [k \in 1..Len(d) |-> IF d[k][1] = key THEN <<key, value>> ELSE d[k]]
    ELSE Append(d, <<key, value>>)

\* The bodies and dates the decoder gives for the files of the model.
BodyA ==
    <<"C","o","m","m","e","n","t"," ","f","r","o","m"," ","A","g","e","n",
      "t",":"," ","H","e","l","l","o"," ","t","h","e","r","e","\n","C","a",
      "s","e"," ","N","u","m","b","e","r",":"," ","1","2","3","4","5","(",
      "r","e","f",")","\n","A","c","c","o","u","n","t",":"," ","A","C","M",
      "E","\n","C","o","n","t","a","c","t",":"," ","J","a","n","e"," ","D",
      "o","e","\n">>
BodyB ==
    <<"C","o","m","m","e","n","t"," ","f","r","o","m"," ","B","o","b",":",
      " ","H","i","\n","C","a","s","e"," ","N","u","m","b","e","r",":"," ",
      "7","(","x",")","\n","A","c","c","o","u","n","t",":"," ","I","n","i",
      "t","\n","C","o","n","t","a","c","t",":"," ","A","l","\n">>
BodyNoCase ==
    <<"C","o","m","m","e","n","t"," ","f","r","o","m"," ","C","y",":"," ",
      "Y","o","\n","A","c","c","o","u","n","t",":"," ","Z","e","d","\n","C",
      "o","n","t","a","c","t",":"," ","D","i","\n">>
BodyNoParen ==
    <<"C","o","m","m","e","n","t"," ","f","r","o","m"," ","E","d",":"," ",
      "O","k","\n","C","a","s","e"," ","N","u","m","b","e","r",":"," ","9",
      "\n","A","c","c","o","u","n","t",":"," ","Y","x","\n","C","o","n","t",
      "a","c","t",":"," ","F","l","o","\n">>
DateA == <<"2","0","2","4","-","0","1","-","0","1">>
DateB == <<"2","0","2","4","-","0","1","-","0","2">>
DateC == <<"2","0","2","4","-","0","1","-","0","3">>
DateD == <<"2","0","2","4","-","0","1","-","0","4">>

\* The input files: what extract_msg's Message gives for each path.  A file
\* that is not ok makes the decoder's constructor raise.
Paths == {"a.msg", "b.msg", "nocase.msg", "noparen.msg", "bad.msg"}

Decoder(filepath) ==
    CASE filepath = "a.msg" -> [ok |-> TRUE, body |-> BodyA, date |-> DateA]
      [] filepath = "b.msg" -> [ok |-> TRUE, body |-> BodyB, date |-> DateB]
      [] filepath = "nocase.msg" ->
             [ok |-> TRUE, body |-> BodyNoCase, date |-> DateC]
      [] filepath = "noparen.msg" ->
             [ok |-> TRUE, body |-> BodyNoParen, date |-> DateD]
      [] OTHER -> [ok |-> FALSE, body |-> <<>>, date |-> <<>>]

\* ---------------------------------------------------------------- Message
\* The value of _data: None, or a reference to a dict (its identity and
\* its items).
NoData == [set |-> FALSE, id |-> 0, items |-> <<>>]
DictRef(id, items) == [set |-> TRUE, id |-> id, items |-> items]

\* Message.__init__(filepath): the new object, or Raised when the decoder
\* cannot open the file.
MessageInit(filepath) ==
    LET x == Decoder(filepath)
    IN  IF ~x.ok THEN Raised
        ELSE Returned([filepath |-> filepath, body |-> x.body,
                       date |-> x.date, _data |-> NoData])

\* The pattern-bearing items of SEARCH_STRINGS, in order.
PatternItems == SelectSeq(SEARCH_STRINGS, LAMBDA it : ~it[2].none)

\* One more item of the dict comprehension: key gets what extract gave (r),
\* or the comprehension raises as extract did.
Collect(prev, key, r) ==
    IF r.raised
    THEN [raised |-> TRUE, items |-> <<>>, calls |-> prev.calls + 1]
    ELSE [raised |-> FALSE, items |-> SetItem(prev.items, key, r.value),
          calls |-> prev.calls + 1]

\* The comprehension so far (prev) taken one item further: nothing more
\* once it has raised, else extract on the item's pair.
AddItem(prev, it, body) ==
    IF prev.raised THEN prev
    ELSE Collect(prev, it[1], Extract(it[2].first, it[2].last, body))

\* The dict comprehension of data over the first n pattern-bearing items:
\* the items built, the number of calls of extract made, and whether one of
\* them raised (the comprehension stops at the first that does).
RECURSIVE Comprehension(_, _)
Comprehension(body, n) ==
    IF n = 0 THEN [raised |-> FALSE, items |-> <<>>, calls |-> 0]
    ELSE AddItem(Comprehension(body, n - 1), PatternItems[n], body)

\* A faulty variant of Compute: the dict is returned but not stored.
ComputeNoStore(m, id, c) ==
    IF c.raised
    THEN [raised |-> TRUE, value |-> NoData, self |-> m, calls |-> c.calls]
    ELSE [raised |-> FALSE,
          value |-> DictRef(id, SetItem(c.items, K_date, m.date)),
          self |-> m, calls |-> c.calls]

\* A faulty variant of Compute: the date is not added.
ComputeNoDate(m, id, c) ==
    IF c.raised
    THEN [raised |-> TRUE, value |-> NoData, self |-> m, calls |-> c.calls]
    ELSE [raised |-> FALSE, value |-> DictRef(id, c.items),
          self |-> [m EXCEPT !._data = DictRef(id, c.items)],
          calls |-> c.calls]

\* The branch of data taken when _data is None, c being what the dict
\* comprehension gave: the date is added, the dict stored and returned.
Compute(m, id, c) ==
    IF c.raised
    THEN [raised |-> TRUE, value |-> NoData, self |-> m, calls |-> c.calls]
    ELSE LET extracted_data == SetItem(c.items, K_date, m.date)
         IN  [raised |-> FALSE, value |-> DictRef(id, extracted_data),
              self |-> [m EXCEPT !._data = DictRef(id, extracted_data)],
              calls |-> c.calls]

\* The property Message.data read on object m, a new dict getting identity
\* id: what the read gives back (a dict reference, or raised), the object
\* afterwards, and the number of calls of extract it made.
Data(m, id) ==
    IF ~m._data.set
    THEN Compute(m, id, Comprehension(m.body, Len(PatternItems)))
    ELSE [raised |-> FALSE, value |-> m._data, self |-> m, calls |-> 0]

\* ------------------------------------------------------------------ state
VARIABLES
    \* a call of Message.extract: its arguments, where it is, what it gave
    start, end, text, epc, result,
    \* Message objects: the objects built so far, the dict identities handed
    \* out, the reads of .data made so far (object, outcome, calls of
    \* extract made by the read) and the exception of the last call
    msgs, nextId, reads, mexc,
    \* a call on the Dispatcher: its paths, the processing path asked for,
    \* the position in the code, the loop index, the path taken, the Message
    \* in hand, the dict .data gave, the output file's content and
    \* open/closed state, the number of opens, the steps taken, and the
    \* exception in flight
    filepaths, entry, pc, idx, path, msg, rowdict, output, isOpen, opens,
    log, exc

evars == <<start, end, text, epc, result>>
mvars == <<msgs, nextId, reads, mexc>>
dvars == <<filepaths, entry, pc, idx, path, msg, rowdict, output, isOpen,
           opens, log, exc>>
vars == <<evars, mvars, dvars>>

\* The parts of the state a specification does not use stay as they are here.
IdleExtract ==
    /\ start = <<>> /\ end = <<>> /\ text = <<>>
    /\ epc = "idle" /\ result = Returned(<<>>)

IdleData ==
    /\ msgs = <<>> /\ nextId = 0 /\ reads = <<>> /\ mexc = ""

NoMessage == [filepath |-> "", body |-> <<>>, date |-> <<>>, _data |-> NoData]

IdleDispatch ==
    /\ filepaths = <<>> /\ entry = "idle" /\ pc = "idle" /\ idx = 0
    /\ path = "" /\ msg = NoMessage /\ rowdict = <<>> /\ output = <<>>
    /\ isOpen = FALSE /\ opens = 0 /\ log = <<>> /\ exc = ""

\* ------------------------------------------------ calls of Message.extract
InitExtract ==
    /\ start \in SeqsUpTo(Tokens, MaxPatLen)
    /\ end \in SeqsUpTo(Sigma, MaxEndLen)
    /\ text \in SeqsUpTo(Sigma, MaxTextLen)
    /\ epc = "call"
    /\ result = Returned(<<>>)
    /\ IdleData /\ IdleDispatch

CallExtract ==
    /\ epc = "call"
    /\ result' = Extract(start, end, text)
    /\ epc' = IF result'.raised THEN "raised" ELSE "returned"
    /\ UNCHANGED <<start, end, text, mvars, dvars>>

NextExtract == CallExtract

SpecExtract == InitExtract /\ [][NextExtract]_vars

\* -------------------------------------------------- reads of Message.data
InitData ==
    /\ msgs = <<>> /\ nextId = 0 /\ reads = <<>> /\ mexc = ""
    /\ IdleExtract /\ IdleDispatch

\* Message(filepath): a new object, unless the decoder raises.
NewMessage ==
    \E f \in Paths : \E r \in {MessageInit(f)} :
            /\ Len(msgs) < MaxMsgs
            /\ msgs' = IF r.raised THEN msgs ELSE Append(msgs, r.value)
            /\ mexc' = IF r.raised THEN "DecodeError" ELSE ""
            /\ UNCHANGED <<nextId, reads, evars, dvars>>

\* msgs[k].data
ReadData ==
    \E k \in 1..Len(msgs) : \E r \in {Data(msgs[k], nextId + 1)} :
            /\ Len(reads) < MaxReads
            /\ msgs' = [msgs EXCEPT ![k] = r.self]
            /\ nextId' = IF r.calls > 0 /\ ~r.raised THEN nextId + 1 ELSE nextId
            /\ reads' = Append(reads, [k |-> k, raised |-> r.raised,
                                       value |-> r.value, calls |-> r.calls])
            /\ mexc' = IF r.raised THEN "AttributeError" ELSE ""
            /\ UNCHANGED <<evars, dvars>>

NextData == NewMessage \/ ReadData

SpecData == InitData /\ [][NextData]_vars

\* ------------------------------------------------------------ Dispatcher
\* csv.DictWriter's fieldnames: SEARCH_STRINGS.keys().
Fieldnames == Keys(SEARCH_STRINGS)

\* A faulty variant of RowOf: the values in the dict's own order.
RowInInsertionOrder(d, fieldnames) == [c \in 1..Len(d) |-> d[c][2]]

\* DictWriter._dict_to_list: the row of a dict, one value per field name,
\* in the order of the field names ('' for a missing key).
RowOf(d, fieldnames) ==
    [c \in 1..Len(fieldnames) |-> Get(d, fieldnames[c], <<>>)]

\* A step of the call, as logged.
Step(ev, i) == [ev |-> ev, i |-> i]

\* entry is the processing path asked for: "execute" is Dispatcher.execute,
\* which takes execute_one for one path and execute_batch otherwise;
\* "execute_batch" is execute_batch on a writer set up as execute does,
\* whatever the number of paths.  The output file may exist already, left
\* by an earlier run.
Init ==
    /\ filepaths \in SeqsUpTo(Paths, MaxFiles)
    /\ entry \in {"execute", "execute_batch"}
    /\ pc = "open"
    /\ idx = 0
    /\ path = ""
    /\ msg = NoMessage
    /\ rowdict = <<>>
    /\ output \in {<<>>, <<Fieldnames>>}
    /\ isOpen = FALSE
    /\ opens = 0
    /\ log = <<>>
    /\ exc = ""
    /\ IdleExtract /\ IdleData

\* open(self.output_path, 'w', newline=''): the file is truncated.
Open ==
    /\ pc = "open"
    /\ output' = <<>>
    /\ isOpen' = TRUE
    /\ opens' = opens + 1
    /\ pc' = "header"
    /\ UNCHANGED <<filepaths, entry, idx, path, msg, rowdict, log, exc,
                   evars, mvars>>

\* writer.writeheader()
WriteHeader ==
    /\ pc = "header"
    /\ output' = Append(output, RowOf([k \in 1..Len(Fieldnames) |->
                                          <<Fieldnames[k], Fieldnames[k]>>],
                                      Fieldnames))
    /\ pc' = "branch"
    /\ UNCHANGED <<filepaths, entry, idx, path, msg, rowdict, isOpen, opens,
                   log, exc, evars, mvars>>

\* A faulty variant of Branch: execute_one(filepaths[0]) for any non-empty
\* list.
BranchOneFirst ==
    /\ pc = "branch"
    /\ IF entry = "execute" /\ Len(filepaths) >= 1
       THEN path' = "one" /\ idx' = 1 /\ pc' = "construct"
       ELSE path' = "batch" /\ idx' = 0 /\ pc' = "for"
    /\ UNCHANGED <<filepaths, entry, msg, rowdict, output, isOpen, opens,
                   log, exc, evars, mvars>>

\* if len(filepaths) == 1: execute_one(filepaths[0]) else: execute_batch
Branch ==
    /\ pc = "branch"
    /\ IF entry = "execute" /\ Len(filepaths) = 1
       THEN path' = "one" /\ idx' = 1 /\ pc' = "construct"
       ELSE path' = "batch" /\ idx' = 0 /\ pc' = "for"
    /\ UNCHANGED <<filepaths, entry, msg, rowdict, output, isOpen, opens,
                   log, exc, evars, mvars>>

\* A faulty variant of ForNext: the loop stops one path early.
ForNextOffByOne ==
    /\ pc = "for"
    /\ IF idx + 1 < Len(filepaths)
       THEN idx' = idx + 1 /\ pc' = "construct"
       ELSE idx' = idx /\ pc' = "exit"
    /\ UNCHANGED <<filepaths, entry, path, msg, rowdict, output, isOpen,
                   opens, log, exc, evars, mvars>>

\* for filepath in filepaths: the next path, or the end of the loop.
ForNext ==
    /\ pc = "for"
    /\ IF idx < Len(filepaths)
       THEN idx' = idx + 1 /\ pc' = "construct"
       ELSE idx' = idx /\ pc' = "exit"
    /\ UNCHANGED <<filepaths, entry, path, msg, rowdict, output, isOpen,
                   opens, log, exc, evars, mvars>>

\* execute_one: self.processor(filepath)
Construct ==
    /\ pc = "construct"
    /\ \E r \in {MessageInit(filepaths[idx])} :
           IF r.raised
           THEN msg' = msg /\ exc' = "DecodeError" /\ pc' = "raise"
           ELSE msg' = r.value /\ exc' = exc /\ pc' = "data"
    /\ log' = Append(log, Step("decode", idx))
    /\ UNCHANGED <<filepaths, entry, idx, path, rowdict, output, isOpen,
                   opens, evars, mvars>>

\* A faulty variant of GetData: a file whose extraction raises is skipped.
GetDataSkip ==
    /\ pc = "data"
    /\ \E r \in {Data(msg, idx)} :
           IF r.raised
           THEN /\ msg' = msg /\ rowdict' = rowdict /\ exc' = exc
                /\ pc' = IF path = "one" THEN "exit" ELSE "for"
           ELSE /\ msg' = r.self /\ rowdict' = r.value.items
                /\ exc' = exc /\ pc' = "writerow"
    /\ log' = Append(log, Step("data", idx))
    /\ UNCHANGED <<filepaths, entry, idx, path, output, isOpen, opens,
                   evars, mvars>>

\* execute_one: .data on the new Message
GetData ==
    /\ pc = "data"
    /\ \E r \in {Data(msg, idx)} :
           IF r.raised
           THEN /\ msg' = msg /\ rowdict' = rowdict
                /\ exc' = "AttributeError" /\ pc' = "raise"
           ELSE /\ msg' = r.self /\ rowdict' = r.value.items
                /\ exc' = exc /\ pc' = "writerow"
    /\ log' = Append(log, Step("data", idx))
    /\ UNCHANGED <<filepaths, entry, idx, path, output, isOpen, opens,
                   evars, mvars>>

\* execute_one: writer.writerow(...), which raises ValueError for a dict
\* with a key that is no field name; then back to the caller.
WriteRow ==
    /\ pc = "writerow"
    /\ IF \E k \in 1..Len(rowdict) : ~HasKey(SEARCH_STRINGS, rowdict[k][1])
       THEN output' = output /\ exc' = "ValueError" /\ pc' = "raise"
       ELSE /\ output' = Append(output, RowOf(rowdict, Fieldnames))
            /\ exc' = exc
            /\ pc' = IF path = "one" THEN "exit" ELSE "for"
    /\ log' = Append(log, Step("write", idx))
    /\ UNCHANGED <<filepaths, entry, idx, path, msg, rowdict, isOpen, opens,
                   evars, mvars>>

\* A faulty variant of ExitWith: the file is closed on the normal path only
\* (file.close() as the last statement instead of a with block).
ExitWithoutCleanup ==
    /\ pc \in {"exit", "raise"}
    /\ isOpen' = (pc = "raise")
    /\ pc' = IF pc = "exit" THEN "done" ELSE "failed"
    /\ UNCHANGED <<filepaths, entry, idx, path, msg, rowdict, output, opens,
                   log, exc, evars, mvars>>

\* The end of the with block, reached normally or by an exception: the file
\* is closed, and execute returns or raises.
ExitWith ==
    /\ pc \in {"exit", "raise"}
    /\ isOpen' = FALSE
    /\ pc' = IF pc = "exit" THEN "done" ELSE "failed"
    /\ UNCHANGED <<filepaths, entry, idx, path, msg, rowdict, output, opens,
                   log, exc, evars, mvars>>

Next ==
    \/ Open
    \/ WriteHeader
    \/ Branch
    \/ ForNext
    \/ Construct
    \/ GetData
    \/ WriteRow
    \/ ExitWith

Spec == Init /\ [][Next]_vars

\* ------------------------------------------------------------------------
\* Properties of Message.extract (SpecExtract)
\* ------------------------------------------------------------------------
\* The call of extract is over.
ExtractOver == epc \in {"returned", "raised"}

\* The positions, from the end of the start match on, where end occurs.
EndsAfterMatch ==
    {p \in Search(start, text).end..Len(text) : OccursAt(text, end, p)}

\* The text between the end of the start match and the first end after it.
Between ==
    SubSeq(text, Search(start, text).end + 1,
           CHOOSE p \in EndsAfterMatch : \A q \in EndsAfterMatch : p <= q)

\* C1: when start matches at exactly one position of text and end occurs
\* after the end of that match, extract returns the text between the end of
\* the match and the first such occurrence of end, stripped.
C1_ExtractReturnsBetween ==
    (/\ ExtractOver
     /\ Cardinality(MatchStarts(start, text)) = 1
     /\ EndsAfterMatch # {})
        => result = Returned(Strip(Between))

\* C2: when start matches in text and end does not occur after the match,
\* extract raises: it returns no value.
C2_MissingEndRaises ==
    (/\ ExtractOver
     /\ MatchStarts(start, text) # {}
     /\ EndsAfterMatch = {})
        => result.raised

\* C3: when start has no match in text, extract raises: it returns no
\* value, the empty string included.
C3_NoStartMatchRaises ==
    (ExtractOver /\ MatchStarts(start, text) = {})
        => (epc = "raised" /\ result.raised)

\* A call that raised on a text in which end does occur.
C3_Witness ==
    /\ epc = "raised"
    /\ MatchStarts(start, text) = {}
    /\ Len(end) > 0 /\ Find(text, end) # -1

\* ------------------------------------------------------------------------
\* Properties of Message.data (SpecData)
\* ------------------------------------------------------------------------
\* Read j comes after read i, of the same object, and read i returned.
LaterRead(i, j) ==
    /\ i < j
    /\ reads[i].k = reads[j].k
    /\ ~reads[i].raised

\* C7: once a read of .data on an object has returned, every later read on
\* that object returns the same dict (same identity, same items) without a
\* call of extract, and the object keeps that dict in _data.
C7_DataCached ==
    /\ \A i, j \in 1..Len(reads) :
          LaterRead(i, j) =>
              /\ ~reads[j].raised
              /\ reads[j].value = reads[i].value
              /\ reads[j].calls = 0
    /\ \A i \in 1..Len(reads) :
          ~reads[i].raised =>
              /\ reads[i].value.set
              /\ msgs[reads[i].k]._data = reads[i].value

\* An object read twice, the first read having computed the dict.
C7_Witness ==
    \E i, j \in 1..Len(reads) :
        /\ LaterRead(i, j)
        /\ reads[i].calls = Len(PatternItems)
        /\ Len(msgs) >= 2

\* The keys of the dicts that reads of .data returned.
ReturnedKeys == {Keys(reads[i].value.items) : i \in
                    {j \in 1..Len(reads) : ~reads[j].raised}}

\* C10 as stated: the keys of every Record are the configured field names
\* in declaration order: date, comment, case_number, account, contact.
C10_KeysInDeclarationOrder ==
    \A ks \in ReturnedKeys :
        ks = <<K_date, K_comment, K_case_number, K_account, K_contact>>

\* C10 amended: the keys of every Record are exactly the configured field
\* names, inserted in the order comment, case_number, account, contact,
\* date: the pattern-bearing fields in declaration order, then date.
C10_KeysDateLast ==
    \A ks \in ReturnedKeys :
        /\ {ks[k] : k \in 1..Len(ks)} =
               {SEARCH_STRINGS[k][1] : k \in 1..Len(SEARCH_STRINGS)}
        /\ ks = <<K_comment, K_case_number, K_account, K_contact, K_date>>

\* A read that returned a Record.
C10_Witness == \E i \in 1..Len(reads) : ~reads[i].raised /\ reads[i].calls > 0

\* ------------------------------------------------------------------------
\* Properties of the Dispatcher (Spec)
\* ------------------------------------------------------------------------
\* execute has returned or raised.
Terminal == pc \in {"done", "failed"}

\* A start marker of SEARCH_STRINGS has no match in the body of f.
MarkerMissing(f) ==
    \E k \in 1..Len(SEARCH_STRINGS) :
        /\ ~SEARCH_STRINGS[k][2].none
        /\ MatchStarts(SEARCH_STRINGS[k][2].first, Decoder(f).body) = {}

\* Processing f fails: the decoder cannot open it, or a marker is missing.
Failing == {f \in Paths : ~Decoder(f).ok \/ MarkerMissing(f)}

FileFails(f) == f \in Failing

\* The index of the first path whose file fails, 0 when none does.
FirstFailure ==
    LET bad == {k \in 1..Len(filepaths) : FileFails(filepaths[k])}
    IN  IF bad = {} THEN 0 ELSE CHOOSE k \in bad : \A j \in bad : k <= j

\* The header, and the row of file f: the decoder's date, then what extract
\* gives for the comment, case_number, account and contact markers.
HeaderRow == <<K_date, K_comment, K_case_number, K_account, K_contact>>

ExpectedRows ==
    [f \in Paths |->
        << Decoder(f).date,
           Extract(P_comment, <<"\n">>, Decoder(f).body).value,
           Extract(P_case_number, <<"(">>, Decoder(f).body).value,
           Extract(P_account, <<"\n">>, Decoder(f).body).value,
           Extract(P_contact, <<"\n">>, Decoder(f).body).value >>]

ExpectedRow(f) == ExpectedRows[f]

\* The header followed by the rows of the first n paths.
ExpectedOutput(n) ==
    <<HeaderRow>> \o [k \in 1..n |-> ExpectedRow(filepaths[k])]

\* The steps of n files processed one after the other: decode, data and
\* write of file 1, then of file 2, ...
ExpectedLog(n) ==
    [k \in 1..(3 * n) |->
        Step(<<"decode", "data", "write">>[((k - 1) % 3) + 1],
             ((k - 1) \div 3) + 1)]

IsPrefix(a, b) == Len(a) <= Len(b) /\ \A k \in 1..Len(a) : a[k] = b[k]

\* C4: when file k is the first to fail, execute raises, the output is the
\* header and the rows of files 1..k-1 in order, no row is written for
\* file k and no later file is decoded or written.
C4_FailFast ==
    FirstFailure # 0 =>
        /\ \A e \in 1..Len(log) :
              /\ log[e].i <= FirstFailure
              /\ ~(log[e].ev = "write" /\ log[e].i = FirstFailure)
        /\ Len(output) <= FirstFailure
        /\ Terminal =>
              /\ pc = "failed"
              /\ exc # ""
              /\ output = ExpectedOutput(FirstFailure - 1)

\* A batch that failed at a file with rows before it and files after it.
C4_Witness ==
    /\ pc = "failed"
    /\ FirstFailure >= 2
    /\ FirstFailure < Len(filepaths)

\* C5: when every file processes, the decode, the Record and the row of
\* each file are done, in that order, before the next file is decoded, and
\* execute ends with one row per file in input order.
C5_OneFileAtATime ==
    FirstFailure = 0 =>
        /\ IsPrefix(log, ExpectedLog(Len(filepaths)))
        /\ Terminal =>
              /\ pc = "done"
              /\ log = ExpectedLog(Len(filepaths))
              /\ output = ExpectedOutput(Len(filepaths))

\* A finished batch of several files.
C5_Witness ==
    /\ pc = "done"
    /\ FirstFailure = 0
    /\ Len(filepaths) >= 2
    /\ filepaths[1] # filepaths[2]

\* C6: the output is opened once, and is closed whenever execute has
\* returned or raised.
C6_OutputClosed ==
    /\ opens <= 1
    /\ Terminal => (opens = 1 /\ ~isOpen)

\* A batch that failed partway, after a row was written.
C6_Witness ==
    /\ pc = "failed"
    /\ Len(output) >= 2
    /\ ~isOpen

\* C8: for a single path, execute_one and execute_batch end alike: the
\* header and the one row when the file processes, the header alone and
\* the exception when it fails.
C8_OneLikeBatch ==
    (Terminal /\ Len(filepaths) = 1) =>
        /\ path \in {"one", "batch"}
        /\ IF FileFails(filepaths[1])
           THEN /\ pc = "failed"
                /\ exc = IF Decoder(filepaths[1]).ok THEN "AttributeError"
                         ELSE "DecodeError"
                /\ output = <<HeaderRow>>
           ELSE /\ pc = "done"
                /\ exc = ""
                /\ output = <<HeaderRow, ExpectedRow(filepaths[1])>>

\* The batch path taken on a list of one file, its row written.
C8_Witness ==
    /\ pc = "done"
    /\ Len(filepaths) = 1
    /\ path = "batch"
    /\ Len(output) = 2

\* C9: once the header is written the output begins with the one header
\* row date, comment, case_number, account, contact, and every row after
\* it holds the values of its file in that column order.
C9_ColumnOrder ==
    pc \notin {"open", "header"} =>
        /\ Len(output) >= 1
        /\ output[1] = HeaderRow
        /\ \A k \in 2..Len(output) :
              /\ output[k] = ExpectedRow(filepaths[k - 1])
              /\ output[k] # HeaderRow

\* A finished call with a row written from a dict whose keys are in another
\* order than the columns.
C9_Witness ==
    /\ Len(output) >= 2
    /\ Keys(rowdict) # HeaderRow
    /\ Terminal
====
